---------------------------- MODULE Spec2Model ----------------------------
(***************************************************************************)
(* Purchase invoices, line totals and weighted-average stock valuation of  *)
(* the book billing system (core/models.py, core/forms.py,                 *)
(* core/views_purchase.py, core/admin.py).                                 *)
(*                                                                         *)
(* Money is held in cents: every stored DecimalField has decimal_places=2. *)
(* A value that Python computes but has not yet stored keeps its full      *)
(* precision; with whole percents that is a whole number of 1/10000 cent.  *)
(* Storing a Decimal brings it to two places.  No line of the sources      *)
(* rounds: how the value is rounded is decided by the database the         *)
(* project's settings name, and the settings are not among the sources.    *)
(* Storage is modelled from the rounding policy of the specification       *)
(* (section 4.1): two places, round-half-to-even.                          *)
(*                                                                         *)
(* core/models.py is the book's listings one after the other: the Invoice  *)
(* model (lines 118-177), a listing of process_purchase_receipt set at     *)
(* column 0 (179-197), the rest of the Invoice class (198-235), and the    *)
(* listings headed "Add these methods to the Invoice model" (260-296) and  *)
(* "Add these methods to the Book model" (300-312), each with "... existing*)
(* fields ..." in place of the fields; forms.py filters Book on is_active, *)
(* one of those fields.  Read as one Python module the file gives Invoice  *)
(* and Book no fields and no request gets past its form.  The model is of  *)
(* the program the listings describe: one Invoice class and one Book class *)
(* with the fields of lines 65-177 and the methods of all the listings, a  *)
(* method listed more than once as Python binds it, by its last listing    *)
(* (process_purchase_receipt: lines 271-296).                              *)
(***************************************************************************)
EXTENDS Integers, Sequences, FiniteSets, TLC

\* ------------------------------------------------------------- bounds

\* Invoices ever created in one behaviour (primary keys 1..MaxInvoices).
MaxInvoices == 2
\* Forms in one submitted item formset.
MaxForms == 2
\* Stock adjustments (Book.update_stock) in one behaviour.
MaxAdjust == 1
\* Changes made through the admin site in one behaviour.
MaxEdits == 1
\* No receipt is posted once a book holds this many copies: a receipt that
\* fails half-way leaves its invoice CONFIRMED and can be posted again.
MaxStock == 4

\* ------------------------------------------------------------- domains

Books == {1, 2}

InvoiceTypes == {"SALES", "PURCHASE", "SALES_RETURN", "PURCHASE_RETURN"}

InvoiceStatuses == {"DRAFT", "PROFORMA", "CONFIRMED", "CANCELLED", "PAID", "OVERDUE"}

\* One filled-in PurchaseItemForm.
Form(b, quantity, unit_price, discount_percent, tax_percent) ==
    [book |-> b, quantity |-> quantity, unit_price |-> unit_price,
     discount_percent |-> discount_percent, tax_percent |-> tax_percent]

\* An extra form of the formset submitted as it was rendered: it has not
\* changed, so it is valid with cleaned_data = {} and its book reads None (0).
Untouched == Form(0, 0, 0, 0, 0)

\* The forms a request can submit (unit_price in cents, whole percents):
\* two lines that come to half a cent (0.005 and 0.045), one for each book,
\* a line of quantity 0 taxed at 150 percent, a line of quantity -1, and the
\* untouched extra form.
ItemForms ==
    {Form(1, 1, 1, 50, 0), Form(2, 3, 3, 50, 0), Form(2, 0, 1, 0, 150), Form(1, -1, 3, 0, 0),
     Untouched}

RECURSIVE SeqsUpTo(_, _)
SeqsUpTo(S, n) ==
    IF n = 0 THEN {<<>>}
    ELSE LET shorter == SeqsUpTo(S, n - 1)
         IN  shorter \cup {Append(s, x) : s \in {t \in shorter : Len(t) = n - 1}, x \in S}

\* A submitted PurchaseItemFormSet: its forms not ticked DELETE, in order.
FormSets == SeqsUpTo(ItemForms, MaxForms)

\* "if item_form.cleaned_data": the forms of a formset that are saved.
Filled(forms) == SelectSeq(forms, LAMBDA form : form # Untouched)

\* ------------------------------------------------------------- decimals

\* Units of full precision per cent: percent/100 twice on a two-place price.
Fine == 10000

Abs(n) == IF n < 0 THEN -n ELSE n

\* n/d to the nearest integer, ties to the even one; d # 0.  This is the
\* rounding the specification prescribes (section 4.1); the sources hold no
\* rounding of their own.
RoundHalfEven(n, d) ==
    LET nn == IF d < 0 THEN -n ELSE n
        dd == Abs(d)
        q  == nn \div dd
        r  == nn % dd
    IN  IF 2 * r < dd THEN q
        ELSE IF 2 * r > dd THEN q + 1
        ELSE IF q % 2 = 0 THEN q ELSE q + 1

\* A full-precision amount as the two-place column stores it, rounded as
\* the specification prescribes.
Quantize(fine) == RoundHalfEven(fine, Fine)

RECURSIVE SumSeq(_)
SumSeq(s) == IF s = <<>> THEN 0 ELSE Head(s) + SumSeq(Tail(s))

\* ------------------------------------------------------------- state

VARIABLES
    books,      \* Book rows: pk -> [quantity_on_hand, cost_price]
    invoices,   \* Invoice rows with their InvoiceItem rows: pk -> record
    next_pk,    \* the next Invoice primary key (AutoField)
    adjusts,    \* stock adjustments made so far
    edits,      \* admin changes made so far
    resp,       \* what the last request answered
    line,       \* calculator runs: the InvoiceItem row last saved on its own
    shelf,      \* valuation runs: one book and the receipts applied to it
    flight      \* requests running side by side: how far each has got

vars == <<books, invoices, next_pk, adjusts, edits, resp, line, shelf, flight>>

\* The database and the last answer; the runs of single functions and the
\* requests in flight.
db == <<books, invoices, next_pk, adjusts, edits, resp>>
calc == <<line, shelf, flight>>

\* ------------------------------------------------------------- models.py

\* Book field defaults: quantity_on_hand = 0, cost_price = 0.00.
NewBook == [quantity_on_hand |-> 0, cost_price |-> 0]

\* The line total with the tax taken on the gross instead of the net.
LineTotal_tax_on_gross(quantity, unit_price, discount_percent, tax_percent) ==
    LET subtotal == quantity * unit_price * Fine
        discount == (subtotal \div 100) * discount_percent
        tax      == (subtotal \div 100) * tax_percent
    IN  (subtotal - discount) + tax

\* The line total with the discount and the tax each rounded to the cent
\* before they enter the sum.
LineTotal_rounded_parts(quantity, unit_price, discount_percent, tax_percent) ==
    LET subtotal == quantity * unit_price * Fine
        discount == Quantize((subtotal \div 100) * discount_percent) * Fine
        tax      == Quantize(((subtotal - discount) \div 100) * tax_percent) * Fine
    IN  (subtotal - discount) + tax

\* InvoiceItem.save, the arithmetic: the line total at full precision.
\*   subtotal = quantity * unit_price
\*   discount = (subtotal * discount_percent) / 100
\*   tax      = ((subtotal - discount) * tax_percent) / 100
\*   line_total = (subtotal - discount) + tax
\* Both divisions by 100 are exact, so dividing first gives the same value.
LineTotal(quantity, unit_price, discount_percent, tax_percent) ==
    LET subtotal == quantity * unit_price * Fine
        discount == (subtotal \div 100) * discount_percent
        tax      == ((subtotal - discount) \div 100) * tax_percent
    IN  (subtotal - discount) + tax

\* The InvoiceItem row that InvoiceItem.save writes for a cleaned form.
ItemRow(form) ==
    [book |-> form.book, quantity |-> form.quantity, unit_price |-> form.unit_price,
     discount_percent |-> form.discount_percent, tax_percent |-> form.tax_percent,
     line_total |-> Quantize(LineTotal(form.quantity, form.unit_price,
                                       form.discount_percent, form.tax_percent))]

LineTotals(items) == [k \in DOMAIN items |-> items[k].line_total]

\* A recomputation that adds the rows' sum to the subtotal already stored.
update_totals_accumulating(inv, floats) ==
    LET subtotal == inv.subtotal + SumSeq(LineTotals(inv.items))
    IN  IF floats /\ inv.items # <<>>
        THEN [row |-> inv, raised |-> TRUE]
        ELSE [row |-> [inv EXCEPT !.subtotal = subtotal,
                                  !.total_amount = subtotal - inv.discount_amount
                                                   + inv.tax_amount + inv.shipping_charges],
              raised |-> FALSE]

\* Invoice.update_totals on an Invoice object: subtotal from the stored rows,
\* then the total, then save.  floats: the object was built in Python and
\* not loaded from its row, so its amounts are still the floats of
\* default=0.00; with a stored item the subtotal is a Decimal and
\* "self.subtotal - self.discount_amount" raises TypeError before the save.
update_totals(inv, floats) ==
    LET subtotal == SumSeq(LineTotals(inv.items))
    IN  IF floats /\ inv.items # <<>>
        THEN [row |-> inv, raised |-> TRUE]
        ELSE [row |-> [inv EXCEPT !.subtotal = subtotal,
                                  !.total_amount = subtotal - inv.discount_amount
                                                   + inv.tax_amount + inv.shipping_charges],
              raised |-> FALSE]

\* InvoiceItem.save: store the row, then recompute the owning invoice (the
\* object the item holds as its invoice).
InvoiceItem_save(inv, floats, form) ==
    update_totals([inv EXCEPT !.items = Append(inv.items, ItemRow(form))], floats)

Invoice_is_purchase(inv) == inv.invoice_type = "PURCHASE"

\* One pass of the receipt loop over one item (models.py 283-293).  The
\* division raises when the new quantity is 0; nothing is saved then.
ReceiptRaises(book, item) ==
    /\ book.cost_price # 0
    /\ book.quantity_on_hand + item.quantity = 0

ReceiveItem(book, item) ==
    LET new_qty == book.quantity_on_hand + item.quantity
    IN  [quantity_on_hand |-> new_qty,
         cost_price |->
            IF book.cost_price = 0 THEN item.unit_price
            ELSE RoundHalfEven(book.cost_price * (new_qty - item.quantity)
                                 + item.unit_price * item.quantity, new_qty)]

\* The loop from item k on: the Book rows saved, and whether an item raised.
RECURSIVE ReceiptLoop(_, _, _)
ReceiptLoop(items, k, bks) ==
    IF k > Len(items) THEN [books |-> bks, raised |-> FALSE]
    ELSE LET item == items[k]
             book == bks[item.book]
         IN  IF ReceiptRaises(book, item) THEN [books |-> bks, raised |-> TRUE]
             ELSE ReceiptLoop(items, k + 1,
                              [bks EXCEPT ![item.book] = ReceiveItem(book, item)])

\* The receipt without its status guard, as the earlier definition of the
\* method (models.py 217-235) has it.
process_purchase_receipt_any_status(inv, bks) ==
    IF ~Invoice_is_purchase(inv)
    THEN [books |-> bks, status |-> inv.status, raised |-> TRUE]
    ELSE LET done == ReceiptLoop(inv.items, 1, bks)
         IN  [books |-> done.books,
              status |-> IF done.raised THEN inv.status ELSE "PAID",
              raised |-> done.raised]

\* Invoice.process_purchase_receipt: "raise" for the two guards, else the loop.
process_purchase_receipt(inv, bks) ==
    IF ~Invoice_is_purchase(inv) \/ inv.status # "CONFIRMED"
    THEN [books |-> bks, status |-> inv.status, raised |-> TRUE]
    ELSE LET done == ReceiptLoop(inv.items, 1, bks)
         IN  [books |-> done.books,
              status |-> IF done.raised THEN inv.status ELSE "PAID",
              raised |-> done.raised]

\* ------------------------------------------------------------- forms.py

\* int(invoice_number.split('-')[-1]) and f"PO-{new_number:06d}": the number
\* is kept as the digits after "PO-", at least six of them.
RECURSIVE Digits(_)
Digits(n) == IF n < 10 THEN <<n>> ELSE Append(Digits(n \div 10), n % 10)

RECURSIVE PadLeft(_, _)
PadLeft(ds, width) == IF Len(ds) >= width THEN ds ELSE PadLeft(<<0>> \o ds, width)

NumberWidth == 6

FormatNumber(n) == PadLeft(Digits(n), NumberWidth)

RECURSIVE ParseNumber(_)
ParseNumber(ds) ==
    IF ds = <<>> THEN 0 ELSE 10 * ParseNumber(SubSeq(ds, 1, Len(ds) - 1)) + ds[Len(ds)]

\* int() of the text after the last "-": it raises ValueError unless the
\* text is made of digits.  A character that is no digit is written 10.
NumberParses(ds) == ds # <<>> /\ \A k \in DOMAIN ds : ds[k] \in 0 .. 9

NoDigit == 10

Max(S) == CHOOSE x \in S : \A y \in S : y <= x

\* A numbering by the count of the purchase invoices there are.
NewInvoiceNumber_by_count(invs) ==
    FormatNumber(Cardinality({pk \in DOMAIN invs : invs[pk].invoice_type = "PURCHASE"}) + 1)

\* PurchaseInvoiceForm.save for a new invoice: a purchase, a draft, numbered
\* one past the purchase invoice with the highest id.
NewInvoiceNumber(invs) ==
    LET purchases == {pk \in DOMAIN invs : invs[pk].invoice_type = "PURCHASE"}
    IN  IF purchases = {} THEN FormatNumber(1)
        ELSE FormatNumber(ParseNumber(invs[Max(purchases)].invoice_number) + 1)

\* The number of the newest purchase invoice does not read as an integer:
\* PurchaseInvoiceForm.save raises ValueError.
NumberRaises(invs) ==
    LET purchases == {pk \in DOMAIN invs : invs[pk].invoice_type = "PURCHASE"}
    IN  purchases # {} /\ ~NumberParses(invs[Max(purchases)].invoice_number)

NewInvoice(invs) ==
    [invoice_number |-> NewInvoiceNumber(invs), invoice_type |-> "PURCHASE",
     status |-> "DRAFT", subtotal |-> 0, discount_amount |-> 0, tax_amount |-> 0,
     shipping_charges |-> 0, total_amount |-> 0, paid_amount |-> 0, items |-> <<>>]

\* A form clean without the test of the quantity.
FormValid_any_quantity(form) ==
    ~(form.unit_price # 0 /\ form.unit_price < 0)

\* PurchaseItemForm.clean: a quantity below 1 and a price below 0 are errors,
\* each only when the value is truthy.
FormValid(form) ==
    /\ ~(form.quantity # 0 /\ form.quantity < 1)
    /\ ~(form.unit_price # 0 /\ form.unit_price < 0)

\* A formset clean that lets a book appear twice.
NoDuplicateBooks_unchecked(forms) == TRUE

\* BasePurchaseItemFormSet.clean: no book twice among the forms, the
\* untouched ones with their book None included.
NoDuplicateBooks(forms) ==
    \A j, k \in DOMAIN forms : j # k => forms[j].book # forms[k].book

FormSetValid(forms) ==
    /\ \A k \in DOMAIN forms : FormValid(forms[k])
    /\ NoDuplicateBooks(forms)

\* ------------------------------------------------------------- views_purchase.py

\* The item loop of purchase_create and purchase_edit: every form with
\* cleaned_data is saved (recomputing the invoice each time) and its
\* unrounded line_total is added to the view's own total_amount; a save that
\* raises ends the loop.
RECURSIVE SaveForms(_, _, _, _)
SaveForms(inv, floats, forms, k) ==
    IF k > Len(forms) THEN [row |-> inv, raised |-> FALSE]
    ELSE IF forms[k] = Untouched THEN SaveForms(inv, floats, forms, k + 1)
    ELSE LET saved == InvoiceItem_save(inv, floats, forms[k])
         IN  IF saved.raised THEN saved ELSE SaveForms(saved.row, floats, forms, k + 1)

FormTotals(forms) ==
    LET filled == Filled(forms)
    IN  [k \in DOMAIN filled |-> LineTotal(filled[k].quantity, filled[k].unit_price,
                                           filled[k].discount_percent, filled[k].tax_percent)]

\* "Update invoice totals": subtotal and total_amount are both overwritten
\* with the view's total; saving quantizes them.
WriteViewTotals(inv, forms) ==
    LET total_amount == Quantize(SumSeq(FormTotals(forms)))
    IN  [inv EXCEPT !.subtotal = total_amount, !.total_amount = total_amount]

Found(pk) == pk \in DOMAIN invoices /\ invoices[pk].invoice_type = "PURCHASE"

Pks == 1 .. MaxInvoices

\* What a request answers: the page of a GET, Http404, or the message the
\* view flashes before it redirects.
Page == "page"
NotFound == "Http404"
Created == "created successfully"
Updated == "updated successfully"
Deleted == "deleted successfully"
Confirmed == "confirmed"
Received == "received and inventory updated"
CorrectErrors == "Please correct the errors below."
OnlyOnce == "Each book can only appear once in a purchase invoice."
CannotEdit == "Cannot edit a confirmed or processed purchase invoice."
CannotDelete == "Cannot delete a confirmed or processed purchase invoice."
NotConfirmed == "Only confirmed purchase invoices can be received."
AlreadyConfirmed == "This invoice is already confirmed or processed."
ReceiptError == "Error processing receipt"
\* Exceptions no view catches: the request is answered with a server error
\* and what its transaction wrote is rolled back.
TypeError == "TypeError"
IntegrityError == "IntegrityError"
ValueError == "ValueError"

\* What the purchase views answer.
ViewAnswers ==
    {Page, NotFound, Created, Updated, Deleted, Confirmed, Received, CorrectErrors,
     OnlyOnce, CannotEdit, CannotDelete, NotConfirmed, AlreadyConfirmed, ReceiptError,
     TypeError, IntegrityError, ValueError}

\* The book field of a form offers the Book rows there are: a filled form
\* naming another book has a field error.
BooksListed(forms) ==
    \A k \in DOMAIN forms : forms[k] = Untouched \/ forms[k].book \in DOMAIN books

\* form.is_valid() and formset.is_valid().
Accepted(forms) == BooksListed(forms) /\ FormSetValid(forms)

\* What an invalid POST is answered: "Please correct the errors below." over
\* the page with the form errors or, when every form is valid (clean returns
\* early otherwise), with the formset's own error.
Rejection(forms) ==
    IF BooksListed(forms) /\ \A k \in DOMAIN forms : FormValid(forms[k])
    THEN OnlyOnce ELSE CorrectErrors

\* invoice_number is unique: a save under a number some row has raises
\* IntegrityError.
NumberTaken(invs, invoice_number) ==
    \E pk \in DOMAIN invs : invs[pk].invoice_number = invoice_number

\* purchase_create while fewer than limit invoices have been created, the
\* item forms posted being one of formsets.  The invoice is the object
\* form.save(commit=False) built, never reloaded.
purchase_create_of(limit, formsets) ==
    /\ next_pk <= limit
    /\ UNCHANGED <<books, adjusts, edits, calc>>
    /\ \/ UNCHANGED <<invoices, next_pk>> /\ resp' = Page
       \/ \E forms \in formsets :
            IF ~Accepted(forms)
            THEN UNCHANGED <<invoices, next_pk>> /\ resp' = Rejection(forms)
            ELSE IF NumberRaises(invoices)
            THEN UNCHANGED <<invoices, next_pk>> /\ resp' = ValueError
            ELSE IF NumberTaken(invoices, NewInvoiceNumber(invoices))
            THEN UNCHANGED <<invoices, next_pk>> /\ resp' = IntegrityError
            ELSE LET saved == SaveForms(NewInvoice(invoices), TRUE, forms, 1)
                 IN  IF saved.raised
                     THEN UNCHANGED <<invoices, next_pk>> /\ resp' = TypeError
                     ELSE /\ invoices' = [pk \in DOMAIN invoices \cup {next_pk} |->
                                 IF pk = next_pk THEN WriteViewTotals(saved.row, forms)
                                 ELSE invoices[pk]]
                          /\ next_pk' = next_pk + 1
                          /\ resp' = Created

purchase_create_upto(limit) == purchase_create_of(limit, FormSets)

purchase_create == purchase_create_upto(MaxInvoices)

\* purchase_edit without its status guard.
purchase_edit_of_any_status(pk, formsets) ==
    /\ UNCHANGED <<books, adjusts, edits, next_pk, calc>>
    /\ IF ~Found(pk)
       THEN UNCHANGED invoices /\ resp' = NotFound
       ELSE \/ UNCHANGED invoices /\ resp' = Page
            \/ \E forms \in formsets :
                 IF Accepted(forms)
                 THEN /\ invoices' = [invoices EXCEPT ![pk] =
                             WriteViewTotals(
                                 SaveForms([@ EXCEPT !.invoice_type = "PURCHASE",
                                                     !.status = "DRAFT",
                                                     !.items = <<>>], FALSE, forms, 1).row,
                                 forms)]
                      /\ resp' = Updated
                 ELSE UNCHANGED invoices /\ resp' = Rejection(forms)

\* purchase_edit, the item forms posted being one of formsets.
purchase_edit_of(pk, formsets) ==
    /\ UNCHANGED <<books, adjusts, edits, next_pk, calc>>
    /\ IF ~Found(pk)
       THEN UNCHANGED invoices /\ resp' = NotFound
       ELSE IF invoices[pk].status # "DRAFT"
       THEN UNCHANGED invoices /\ resp' = CannotEdit
       ELSE \/ UNCHANGED invoices /\ resp' = Page
            \/ \E forms \in formsets :
                 IF Accepted(forms)
                 THEN /\ invoices' = [invoices EXCEPT ![pk] =
                             WriteViewTotals(
                                 SaveForms([@ EXCEPT !.invoice_type = "PURCHASE",
                                                     !.status = "DRAFT",
                                                     !.items = <<>>], FALSE, forms, 1).row,
                                 forms)]
                      /\ resp' = Updated
                 ELSE UNCHANGED invoices /\ resp' = Rejection(forms)

purchase_edit(pk) == purchase_edit_of(pk, FormSets)

purchase_delete(pk) ==
    /\ UNCHANGED <<books, adjusts, edits, next_pk, calc>>
    /\ IF ~Found(pk)
       THEN UNCHANGED invoices /\ resp' = NotFound
       ELSE IF invoices[pk].status # "DRAFT"
       THEN UNCHANGED invoices /\ resp' = CannotDelete
       ELSE \/ UNCHANGED invoices /\ resp' = Page
            \/ /\ invoices' = [k \in DOMAIN invoices \ {pk} |-> invoices[k]]
               /\ resp' = Deleted

\* purchase_receive settling the invoice as well: a successful receipt also
\* writes the total_amount into paid_amount.
purchase_receive_settling(pk) ==
    /\ UNCHANGED <<adjusts, edits, next_pk, calc>>
    /\ IF ~Found(pk)
       THEN UNCHANGED <<invoices, books>> /\ resp' = NotFound
       ELSE IF invoices[pk].status # "CONFIRMED"
       THEN UNCHANGED <<invoices, books>> /\ resp' = NotConfirmed
       ELSE \/ UNCHANGED <<invoices, books>> /\ resp' = Page
            \/ LET done == process_purchase_receipt(invoices[pk], books)
               IN  /\ \A b \in DOMAIN books : books[b].quantity_on_hand < MaxStock
                   /\ books' = done.books
                   /\ invoices' = [invoices EXCEPT
                         ![pk].status = done.status,
                         ![pk].paid_amount = IF done.raised THEN @
                                             ELSE invoices[pk].total_amount]
                   /\ resp' = IF done.raised THEN ReceiptError ELSE Received

\* purchase_receive without the status guards of the view and of the method.
purchase_receive_any_status(pk) ==
    /\ UNCHANGED <<adjusts, edits, next_pk, calc>>
    /\ IF ~Found(pk)
       THEN UNCHANGED <<invoices, books>> /\ resp' = NotFound
       ELSE \/ UNCHANGED <<invoices, books>> /\ resp' = Page
            \/ LET done == process_purchase_receipt_any_status(invoices[pk], books)
               IN  /\ \A b \in DOMAIN books : books[b].quantity_on_hand < MaxStock
                   /\ books' = done.books
                   /\ invoices' = [invoices EXCEPT ![pk].status = done.status]
                   /\ resp' = IF done.raised THEN ReceiptError ELSE Received

purchase_receive(pk) ==
    /\ UNCHANGED <<adjusts, edits, next_pk, calc>>
    /\ IF ~Found(pk)
       THEN UNCHANGED <<invoices, books>> /\ resp' = NotFound
       ELSE IF invoices[pk].status # "CONFIRMED"
       THEN UNCHANGED <<invoices, books>> /\ resp' = NotConfirmed
       ELSE \/ UNCHANGED <<invoices, books>> /\ resp' = Page
            \/ LET done == process_purchase_receipt(invoices[pk], books)
               IN  /\ \A b \in DOMAIN books : books[b].quantity_on_hand < MaxStock
                   /\ books' = done.books
                   /\ invoices' = [invoices EXCEPT ![pk].status = done.status]
                   /\ resp' = IF done.raised THEN ReceiptError ELSE Received

\* purchase_confirm without its status guard.
purchase_confirm_any_status(pk) ==
    /\ UNCHANGED <<books, adjusts, edits, next_pk, calc>>
    /\ IF ~Found(pk)
       THEN UNCHANGED invoices /\ resp' = NotFound
       ELSE \/ UNCHANGED invoices /\ resp' = Page
            \/ invoices' = [invoices EXCEPT ![pk].status = "CONFIRMED"] /\ resp' = Confirmed

purchase_confirm(pk) ==
    /\ UNCHANGED <<books, adjusts, edits, next_pk, calc>>
    /\ IF ~Found(pk)
       THEN UNCHANGED invoices /\ resp' = NotFound
       ELSE IF invoices[pk].status # "DRAFT"
       THEN UNCHANGED invoices /\ resp' = AlreadyConfirmed
       ELSE \/ UNCHANGED invoices /\ resp' = Page
            \/ invoices' = [invoices EXCEPT ![pk].status = "CONFIRMED"] /\ resp' = Confirmed

\* Book.update_stock: quantity_on_hand += quantity_change; save.
StockChanges == {-2, 1}

update_stock(b, quantity_change) ==
    /\ adjusts < MaxAdjust
    /\ b \in DOMAIN books
    /\ adjusts' = adjusts + 1
    /\ books' = [books EXCEPT ![b].quantity_on_hand = @ + quantity_change]
    /\ resp' = "saved"
    /\ UNCHANGED <<invoices, next_pk, edits, calc>>

\* ------------------------------------------------------------- specification

NoLine == [quantity |-> 0, unit_price |-> 0, discount_percent |-> 0, tax_percent |-> 0,
           line_total |-> 0]

NoReceipt == [quantity |-> 0, unit_price |-> 0]

\* A book on its own, the receipts applied to it (how many, their quantities
\* and their value in all), and the last one with the book as it found it.
Shelf(book) ==
    [book |-> book, start |-> book, receipts |-> 0, received |-> 0, value |-> 0,
     before |-> book, last |-> NoReceipt]

\* Requests that run side by side in one behaviour.
MaxRequests == 2

Reqs == 1 .. MaxRequests

\* A request not yet made.  One in flight holds the view it is in, the
\* Invoice row it loaded (purchase), the items its loop iterates over, the
\* index of the next one and the Book row loaded for it.
Idle ==
    [op |-> "idle", at |-> "idle", pk |-> 0, purchase |-> <<>>, items |-> <<>>, k |-> 0,
     book |-> NewBook]

InitDb ==
    /\ books = [b \in Books |-> NewBook]
    /\ invoices = <<>>
    /\ next_pk = 1
    /\ adjusts = 0
    /\ edits = 0
    /\ resp = Page

Init ==
    /\ InitDb
    /\ line = NoLine
    /\ shelf = Shelf(NewBook)
    /\ flight = [r \in Reqs |-> Idle]

Next ==
    \/ purchase_create
    \/ \E pk \in Pks : purchase_edit(pk)
    \/ \E pk \in Pks : purchase_delete(pk)
    \/ \E pk \in Pks : purchase_confirm(pk)
    \/ \E pk \in Pks : purchase_receive(pk)
    \/ \E b \in Books, d \in StockChanges : update_stock(b, d)

Spec == Init /\ [][Next]_vars

\* ------------------------------------------------------------- other callers

\* Invoice.process_purchase_receipt called on a row directly (no view, no
\* transaction around it): what each book.save() wrote stays written.
Invoice_process_purchase_receipt(pk) ==
    /\ pk \in DOMAIN invoices
    /\ \A b \in DOMAIN books : books[b].quantity_on_hand < MaxStock
    /\ LET done == process_purchase_receipt(invoices[pk], books)
       IN  /\ books' = done.books
           /\ invoices' = [invoices EXCEPT ![pk].status = done.status]
           /\ resp' = IF done.raised THEN "raised" ELSE "returned"
    /\ UNCHANGED <<adjusts, edits, next_pk, calc>>

\* The item forms posted beside the admin site: the two half-cent lines and
\* the untouched extra form.
AdminFormSets == SeqsUpTo({Form(1, 1, 1, 50, 0), Form(2, 3, 3, 50, 0), Untouched}, MaxForms)

\* What the admin site answers.
AdminSaved == "admin: saved"
AdminDeleted == "admin: deleted"
AdminInvalid == "admin: already exists"
AdminError == "admin: TypeError"

\* InvoiceAdmin: the change form writes the editable fields (subtotal and
\* total_amount are read-only) and saves the row; nothing is recomputed.
\* One change sets one field.
AdminFields ==
    {"invoice_number", "invoice_type", "status", "discount_amount", "tax_amount",
     "shipping_charges", "paid_amount"}

\* The numbers typed into the admin form: PO-000002 and PO-X.
AdminNumbers == {FormatNumber(2), <<NoDigit>>}

AdminValues(fld) ==
    CASE fld = "invoice_number" -> AdminNumbers
      [] fld = "invoice_type" -> InvoiceTypes
      [] fld = "status" -> InvoiceStatuses
      [] fld = "discount_amount" -> {1}
      [] fld = "tax_amount" -> {2}
      [] fld = "shipping_charges" -> {4}
      [] fld = "paid_amount" -> {2}

\* The item values typed into the admin site, which validates none of them.
AdminItemForms == {Form(2, 3, 3, 50, 0), Form(1, -1, 3, 0, 0)}

\* What one save of the change form does to the inline rows: nothing, a row
\* changed, a row ticked for deletion, or the extra row filled in.
NoRows == [op |-> "none", k |-> 0, form |-> Untouched]

InlineRows(inv) ==
    {NoRows}
        \cup {[op |-> "change", k |-> k, form |-> form] :
                 k \in DOMAIN inv.items, form \in AdminItemForms}
        \cup {[op |-> "delete", k |-> k, form |-> Untouched] : k \in DOMAIN inv.items}
        \cup {[op |-> "add", k |-> 0, form |-> form] : form \in AdminItemForms}

\* The inline rows are touched in a request that types the status or the
\* discount_amount; with the other fields the rows are left as they are.
RowFields == {"status", "discount_amount"}

AdminRows(inv, fld) == IF fld \in RowFields THEN InlineRows(inv) ELSE {NoRows}

\* A row changed in the inline: book, quantity, unit_price and
\* discount_percent are its fields, tax_percent stays as stored.
InlineRow(old, form) == ItemRow([form EXCEPT !.tax_percent = old.tax_percent])

\* form.has_changed() of an inline row: one of its fields was typed over with
\* another value than the row has.
InlineChanged(old, form) ==
    \/ form.book # old.book
    \/ form.quantity # old.quantity
    \/ form.unit_price # old.unit_price
    \/ form.discount_percent # old.discount_percent

WithoutItem(items, k) == SubSeq(items, 1, k - 1) \o SubSeq(items, k + 1, Len(items))

\* InvoiceAdmin's change form, one request: save_model writes the row with
\* the field typed in, save_formset then saves the inline rows.  The form's
\* validate_unique refuses a number another row has.  A changed row goes
\* through InvoiceItem.save, which recomputes the totals of the invoice; a
\* row typed over with the values it has is not saved, and a deleted row
\* recomputes nothing.  A new row has no tax_percent field: the
\* object keeps the float default 0.00, InvoiceItem.save raises TypeError at
\* (subtotal - discount) * self.tax_percent and the request is rolled back.
admin_change_invoice(pk, fld, value, rows) ==
    /\ edits < MaxEdits
    /\ pk \in DOMAIN invoices
    /\ rows \in InlineRows(invoices[pk])
    /\ edits' = edits + 1
    /\ IF /\ fld = "invoice_number"
          /\ \E other \in DOMAIN invoices \ {pk} : invoices[other].invoice_number = value
       THEN UNCHANGED invoices /\ resp' = AdminInvalid
       ELSE IF rows.op \in {"change", "add"} /\ rows.form.book \notin DOMAIN books
       THEN UNCHANGED invoices /\ resp' = AdminInvalid
       ELSE IF rows.op = "add"
       THEN UNCHANGED invoices /\ resp' = AdminError
       ELSE LET row == [invoices[pk] EXCEPT ![fld] = value]
            IN  /\ invoices' = [invoices EXCEPT ![pk] =
                       CASE rows.op = "none" -> row
                         [] rows.op = "delete" ->
                              [row EXCEPT !.items = WithoutItem(@, rows.k)]
                         [] rows.op = "change" ->
                              IF InlineChanged(row.items[rows.k], rows.form)
                              THEN update_totals(
                                       [row EXCEPT !.items[rows.k] =
                                            InlineRow(row.items[rows.k], rows.form)],
                                       FALSE).row
                              ELSE row]
                /\ resp' = AdminSaved
    /\ UNCHANGED <<books, adjusts, next_pk, calc>>

\* InvoiceAdmin's add form: a row with the number, type, status and
\* discount_amount typed in; subtotal and total_amount, which are read-only,
\* keep their default.
AdminTypes == {"PURCHASE", "SALES"}
AdminDiscounts == {0, 1}

admin_add_invoice(invoice_number, invoice_type, status, discount_amount) ==
    /\ edits < MaxEdits
    /\ next_pk <= MaxInvoices
    /\ edits' = edits + 1
    /\ IF NumberTaken(invoices, invoice_number)
       THEN UNCHANGED <<invoices, next_pk>> /\ resp' = AdminInvalid
       ELSE /\ invoices' = [pk \in DOMAIN invoices \cup {next_pk} |->
                   IF pk = next_pk
                   THEN [NewInvoice(<<>>) EXCEPT !.invoice_number = invoice_number,
                                                 !.invoice_type = invoice_type,
                                                 !.status = status,
                                                 !.discount_amount = discount_amount]
                   ELSE invoices[pk]]
            /\ next_pk' = next_pk + 1
            /\ resp' = AdminSaved
    /\ UNCHANGED <<books, adjusts, calc>>

\* The invoices added through the admin site: every status, two of the
\* types, a number that is free, taken or without digits.
AdminAdds ==
    \E invoice_number \in AdminNumbers \cup {FormatNumber(1)},
       invoice_type \in AdminTypes, status \in InvoiceStatuses,
       discount_amount \in AdminDiscounts :
      admin_add_invoice(invoice_number, invoice_type, status, discount_amount)

\* InvoiceAdmin's delete: the row goes with its items (CASCADE), whatever the
\* status.
admin_delete_invoice(pk) ==
    /\ edits < MaxEdits
    /\ pk \in DOMAIN invoices
    /\ edits' = edits + 1
    /\ invoices' = [other \in DOMAIN invoices \ {pk} |-> invoices[other]]
    /\ resp' = AdminDeleted
    /\ UNCHANGED <<books, adjusts, next_pk, calc>>

\* InvoiceItemAdmin's add form: InvoiceItem.save stores the row with its
\* line_total and recomputes the totals of the invoice, loaded from the
\* database.
admin_add_item(pk, form) ==
    /\ edits < MaxEdits
    /\ pk \in DOMAIN invoices
    /\ Len(invoices[pk].items) < MaxForms
    /\ edits' = edits + 1
    /\ IF form.book \in DOMAIN books
       THEN /\ invoices' = [invoices EXCEPT ![pk] = InvoiceItem_save(@, FALSE, form).row]
            /\ resp' = AdminSaved
       ELSE UNCHANGED invoices /\ resp' = AdminInvalid
    /\ UNCHANGED <<books, adjusts, next_pk, calc>>

\* A sequence with x put in at place j.
InsertAt(s, j, x) == SubSeq(s, 1, j - 1) \o <<x>> \o SubSeq(s, j, Len(s))

\* InvoiceItemAdmin's change form: every field of the row is typed in, the
\* invoice among them.  InvoiceItem.save stores the row and recomputes the
\* totals of the invoice the row now belongs to; an invoice the row has left
\* keeps the totals it had.  The row keeps its id: its place among the items
\* of the invoice it joins goes by the ids, which are not kept here.
admin_change_item(pk, k, target, form) ==
    /\ edits < MaxEdits
    /\ pk \in DOMAIN invoices
    /\ k \in DOMAIN invoices[pk].items
    /\ target \in DOMAIN invoices
    /\ edits' = edits + 1
    /\ IF form.book \notin DOMAIN books
       THEN UNCHANGED invoices /\ resp' = AdminInvalid
       ELSE IF target = pk
       THEN /\ invoices' = [invoices EXCEPT ![pk] =
                   update_totals([@ EXCEPT !.items[k] = ItemRow(form)], FALSE).row]
            /\ resp' = AdminSaved
       ELSE /\ Len(invoices[target].items) < MaxForms
            /\ \E j \in 1 .. Len(invoices[target].items) + 1 :
                 invoices' = [invoices EXCEPT
                     ![pk].items = WithoutItem(@, k),
                     ![target] = update_totals(
                                     [@ EXCEPT !.items = InsertAt(@, j, ItemRow(form))],
                                     FALSE).row]
            /\ resp' = AdminSaved
    /\ UNCHANGED <<books, adjusts, next_pk, calc>>

\* InvoiceItemAdmin's delete view: the row is deleted; the invoice keeps the
\* totals it had.
admin_delete_item(pk, k) ==
    /\ edits < MaxEdits
    /\ pk \in DOMAIN invoices
    /\ k \in DOMAIN invoices[pk].items
    /\ edits' = edits + 1
    /\ invoices' = [invoices EXCEPT ![pk].items = WithoutItem(@, k)]
    /\ resp' = AdminDeleted
    /\ UNCHANGED <<books, adjusts, next_pk, calc>>

\* BookAdmin's changelist (list_editable): quantity_on_hand is typed in and
\* the row saved.  (The add and change forms of BookAdmin raise FieldError.)
AdminStocks == {-1, 2}

admin_change_book(b, quantity_on_hand) ==
    /\ edits < MaxEdits
    /\ b \in DOMAIN books
    /\ edits' = edits + 1
    /\ books' = [books EXCEPT ![b].quantity_on_hand = quantity_on_hand]
    /\ resp' = AdminSaved
    /\ UNCHANGED <<invoices, adjusts, next_pk, calc>>

\* BookAdmin's delete view: the Book row is removed unless an item names it
\* (on_delete=PROTECT).
AdminProtected == "admin: cannot delete"

admin_delete_book(b) ==
    /\ edits < MaxEdits
    /\ b \in DOMAIN books
    /\ edits' = edits + 1
    /\ IF \E pk \in DOMAIN invoices : \E k \in DOMAIN invoices[pk].items :
             invoices[pk].items[k].book = b
       THEN UNCHANGED books /\ resp' = AdminProtected
       ELSE /\ books' = [other \in DOMAIN books \ {b} |-> books[other]]
            /\ resp' = AdminDeleted
    /\ UNCHANGED <<invoices, adjusts, next_pk, calc>>

\* The admin site.
NextSite ==
    \/ \E pk \in DOMAIN invoices, fld \in AdminFields :
         \E value \in AdminValues(fld), rows \in AdminRows(invoices[pk], fld) :
            admin_change_invoice(pk, fld, value, rows)
    \/ AdminAdds
    \/ \E pk \in Pks : admin_delete_invoice(pk)
    \/ \E pk \in Pks, form \in AdminItemForms : admin_add_item(pk, form)
    \/ \E pk \in Pks, k \in 1 .. MaxForms, target \in Pks, form \in AdminItemForms :
         admin_change_item(pk, k, target, form)
    \/ \E pk \in Pks, k \in 1 .. MaxForms : admin_delete_item(pk, k)
    \/ \E b \in Books, quantity_on_hand \in AdminStocks :
         admin_change_book(b, quantity_on_hand)
    \/ \E b \in Books : admin_delete_book(b)

\* The purchase views and stock adjustments, with direct calls of the
\* model's method and InvoiceAdmin's add form beside them: an invoice added
\* there has a status, a type or a discount the purchase views never write.
NextAdmin ==
    \/ purchase_create_of(MaxInvoices, AdminFormSets)
    \/ \E pk \in Pks : purchase_edit_of(pk, AdminFormSets)
    \/ \E pk \in Pks : purchase_delete(pk)
    \/ \E pk \in Pks : purchase_confirm(pk)
    \/ \E pk \in Pks : purchase_receive(pk)
    \/ \E b \in Books, d \in StockChanges : update_stock(b, d)
    \/ \E pk \in Pks : Invoice_process_purchase_receipt(pk)
    \/ AdminAdds

SpecAdmin == Init /\ [][NextAdmin]_vars

\* The same with the whole admin site.
NextWhole == NextAdmin \/ NextSite

SpecSite == Init /\ [][NextWhole]_vars

\* ------------------------------------------------------------- recomputation

Recomputed == "recomputed"

\* Invoice.update_totals called on a row: the totals are computed from the
\* stored items and the invoice's amounts, and the row is saved.
Invoice_update_totals(pk) ==
    /\ pk \in DOMAIN invoices
    /\ invoices' = [invoices EXCEPT ![pk] = update_totals(@, FALSE).row]
    /\ resp' = Recomputed
    /\ UNCHANGED <<books, adjusts, edits, next_pk, calc>>

\* Invoices are created by the view or added in the admin site, given lines
\* by the edit view, and their totals recomputed.
NextTotals ==
    \/ purchase_create_of(MaxInvoices, AdminFormSets)
    \/ \E pk \in Pks : purchase_edit_of(pk, AdminFormSets)
    \/ AdminAdds
    \/ \E pk \in Pks : Invoice_update_totals(pk)

SpecTotals == Init /\ [][NextTotals]_vars

\* ------------------------------------------------------------- numbering

\* Invoices created while the numbers are followed.
MaxNumbered == 4

\* Purchase invoices are created, confirmed and, while DRAFT, deleted.
NextNumbers ==
    \/ purchase_create_upto(MaxNumbered)
    \/ \E pk \in 1 .. MaxNumbered : purchase_confirm(pk)
    \/ \E pk \in 1 .. MaxNumbered : purchase_delete(pk)

SpecNumbers == Init /\ [][NextNumbers]_vars

\* ------------------------------------------------------------- the line calculator

\* The fields of one line, beyond the few the requests above submit.
MaxQuantity == 3
LinePrices == {0, 1, 99, 250, 10000}
LinePercents == {0, 5, 10, 33, 50, 100}

\* Items saved on one invoice while the line is followed.
MaxLines == 1

LineSaved == "returned"

\* InvoiceItem.save called on a new row of invoice pk (book 1): line_total is
\* computed, the row stored (IntegrityError when there is no such invoice)
\* and the totals of the invoice, loaded from the database, recomputed.
\* line is the row as it stands among the items of the invoice.
save_line(pk, quantity, unit_price, discount_percent, tax_percent) ==
    LET form == Form(1, quantity, unit_price, discount_percent, tax_percent)
    IN  /\ IF pk \notin DOMAIN invoices
           THEN UNCHANGED <<invoices, line>> /\ resp' = IntegrityError
           ELSE /\ Len(invoices[pk].items) < MaxLines
                /\ invoices' = [invoices EXCEPT ![pk] = InvoiceItem_save(@, FALSE, form).row]
                /\ line' = invoices'[pk].items[Len(invoices'[pk].items)]
                /\ resp' = LineSaved
        /\ UNCHANGED <<books, next_pk, adjusts, edits, shelf, flight>>

\* One invoice is created without lines and lines are saved on it.
NextLine ==
    \/ purchase_create_of(1, {<<Untouched>>})
    \/ \E pk \in Pks, quantity \in 1 .. MaxQuantity, unit_price \in LinePrices,
          discount_percent \in LinePercents, tax_percent \in LinePercents :
         save_line(pk, quantity, unit_price, discount_percent, tax_percent)

SpecLine == Init /\ [][NextLine]_vars

\* ------------------------------------------------------------- one book's valuation

\* Receipts applied to the one book, and what a receipt can bring.
MaxReceipts == 3
ReceiptQuantities == {1, 2, 10}
ReceiptCosts == {0, 1, 10000, 20000}

\* Books as the admin site can have entered them.
ShelfBooks ==
    {[quantity_on_hand |-> q, cost_price |-> c] : q \in {0, 1, 3}, c \in {0, 1, 10000}}

\* One pass of the receipt loop on the book.
receive(quantity, unit_price) ==
    LET item == [quantity |-> quantity, unit_price |-> unit_price]
    IN  /\ shelf.receipts < MaxReceipts
        /\ ~ReceiptRaises(shelf.book, item)
        /\ shelf' = [book |-> ReceiveItem(shelf.book, item),
                     start |-> shelf.start,
                     receipts |-> shelf.receipts + 1,
                     received |-> shelf.received + quantity,
                     value |-> shelf.value + quantity * unit_price,
                     before |-> shelf.book,
                     last |-> item]
        /\ UNCHANGED <<db, line, flight>>

InitBook ==
    /\ InitDb
    /\ line = NoLine
    /\ \E book \in ShelfBooks : shelf = Shelf(book)
    /\ flight = [r \in Reqs |-> Idle]

NextBook ==
    \E quantity \in ReceiptQuantities, unit_price \in ReceiptCosts :
        receive(quantity, unit_price)

SpecBook == InitBook /\ [][NextBook]_vars

\* Book.update_stock on the one book: quantity_on_hand += quantity_change; save.
Book_update_stock(quantity_change) ==
    /\ adjusts < MaxAdjust
    /\ adjusts' = adjusts + 1
    /\ shelf' = [shelf EXCEPT !.book.quantity_on_hand = @ + quantity_change]
    /\ UNCHANGED <<books, invoices, next_pk, edits, resp, line, flight>>

\* Receipts and stock adjustments on the one book.
NextStock ==
    \/ NextBook
    \/ \E quantity_change \in StockChanges : Book_update_stock(quantity_change)

SpecStock == InitBook /\ [][NextStock]_vars

\* ------------------------------------------------------------- requests side by side

\* The views as the statements they run, one request beside another.  Nothing
\* in the code locks a row (no select_for_update, no F() expression): a row
\* is read where the code reads it and Model.save() writes every field of
\* the object in memory where the code saves it.

\* The item formsets posted by the requests followed side by side.
RaceFormSets == SeqsUpTo({Form(2, 3, 3, 50, 0), Untouched}, MaxForms)

\* Request r is made: requests are numbered in the order they start.
Starts(r) == flight[r] = Idle /\ (IF r = 1 THEN TRUE ELSE flight[r - 1] # Idle)

InFlight(r, op, at) == flight[r].op = op /\ flight[r].at = at

\* Model.save() of an Invoice object: UPDATE of its row, INSERT when the row
\* is gone.  The InvoiceItem rows are not part of it.
SaveRow(invs, pk, row) ==
    [p \in DOMAIN invs \cup {pk} |->
        IF p = pk
        THEN [row EXCEPT !.items = IF pk \in DOMAIN invs THEN invs[pk].items ELSE <<>>]
        ELSE invs[p]]

\* Where the receipt loop stands after item k - 1.
LoopAt(items, k) == IF k > Len(items) THEN "finish" ELSE "load"

\* purchase_receive, POST: get_object_or_404 and the status guard.
purchase_receive_begin(r, pk) ==
    /\ Starts(r)
    /\ Found(pk)
    /\ invoices[pk].status = "CONFIRMED"
    /\ flight' = [flight EXCEPT ![r] =
                     [Idle EXCEPT !.op = "purchase_receive", !.at = "items", !.pk = pk,
                                  !.purchase = invoices[pk]]]
    /\ UNCHANGED <<db, line, shelf>>

\* process_purchase_receipt: "for item in self.items.all()" runs its query.
purchase_receive_items(r) ==
    /\ InFlight(r, "purchase_receive", "items")
    /\ LET items == IF flight[r].pk \in DOMAIN invoices
                    THEN invoices[flight[r].pk].items ELSE <<>>
       IN  flight' = [flight EXCEPT ![r].items = items, ![r].k = 1,
                                    ![r].at = LoopAt(items, 1)]
    /\ UNCHANGED <<db, line, shelf>>

\* "book = item.book": the Book row is read.
purchase_receive_load(r) ==
    /\ InFlight(r, "purchase_receive", "load")
    /\ flight' = [flight EXCEPT ![r].book = books[flight[r].items[flight[r].k].book],
                                ![r].at = "save"]
    /\ UNCHANGED <<db, line, shelf>>

\* The arithmetic on the object in memory and "book.save()"; a division that
\* raises ends the request with the error message.
purchase_receive_save(r) ==
    /\ InFlight(r, "purchase_receive", "save")
    /\ LET item == flight[r].items[flight[r].k]
       IN  IF ReceiptRaises(flight[r].book, item)
           THEN /\ flight' = [flight EXCEPT ![r].at = "failed"]
                /\ resp' = ReceiptError
                /\ UNCHANGED books
           ELSE /\ books' = [books EXCEPT ![item.book] = ReceiveItem(flight[r].book, item)]
                /\ flight' = [flight EXCEPT ![r].k = @ + 1,
                                            ![r].at = LoopAt(flight[r].items, flight[r].k + 1)]
                /\ UNCHANGED resp
    /\ UNCHANGED <<invoices, next_pk, adjusts, edits, line, shelf>>

\* "self.status = 'PAID'; self.save()" and the success message.
purchase_receive_finish(r) ==
    /\ InFlight(r, "purchase_receive", "finish")
    /\ invoices' = SaveRow(invoices, flight[r].pk, [flight[r].purchase EXCEPT !.status = "PAID"])
    /\ resp' = Received
    /\ flight' = [flight EXCEPT ![r].at = "done"]
    /\ UNCHANGED <<books, next_pk, adjusts, edits, line, shelf>>

\* purchase_edit, POST: get_object_or_404 and the status guard.
purchase_edit_begin(r, pk) ==
    /\ Starts(r)
    /\ Found(pk)
    /\ invoices[pk].status = "DRAFT"
    /\ flight' = [flight EXCEPT ![r] =
                     [Idle EXCEPT !.op = "purchase_edit", !.at = "commit", !.pk = pk,
                                  !.purchase = invoices[pk]]]
    /\ UNCHANGED <<db, line, shelf>>

\* The rest of purchase_edit: form.save() on the loaded object (status set to
\* DRAFT), the items deleted and saved anew, the totals written.
purchase_edit_commit(r) ==
    /\ InFlight(r, "purchase_edit", "commit")
    /\ flight' = [flight EXCEPT ![r].at = "done"]
    /\ \E forms \in RaceFormSets :
         IF Accepted(forms)
         THEN /\ invoices' = [p \in DOMAIN invoices \cup {flight[r].pk} |->
                     IF p = flight[r].pk
                     THEN WriteViewTotals(
                              SaveForms([flight[r].purchase EXCEPT !.invoice_type = "PURCHASE",
                                                                  !.status = "DRAFT",
                                                                  !.items = <<>>],
                                        FALSE, forms, 1).row,
                              forms)
                     ELSE invoices[p]]
              /\ resp' = Updated
         ELSE UNCHANGED invoices /\ resp' = Rejection(forms)
    /\ UNCHANGED <<books, next_pk, adjusts, edits, line, shelf>>

\* purchase_delete, POST: get_object_or_404 and the status guard.
purchase_delete_begin(r, pk) ==
    /\ Starts(r)
    /\ Found(pk)
    /\ invoices[pk].status = "DRAFT"
    /\ flight' = [flight EXCEPT ![r] =
                     [Idle EXCEPT !.op = "purchase_delete", !.at = "commit", !.pk = pk,
                                  !.purchase = invoices[pk]]]
    /\ UNCHANGED <<db, line, shelf>>

\* "purchase.delete()": the row and, by cascade, its items.
purchase_delete_commit(r) ==
    /\ InFlight(r, "purchase_delete", "commit")
    /\ flight' = [flight EXCEPT ![r].at = "done"]
    /\ invoices' = [p \in DOMAIN invoices \ {flight[r].pk} |-> invoices[p]]
    /\ resp' = Deleted
    /\ UNCHANGED <<books, next_pk, adjusts, edits, line, shelf>>

\* purchase_confirm, POST: get_object_or_404 and the status guard.
purchase_confirm_begin(r, pk) ==
    /\ Starts(r)
    /\ Found(pk)
    /\ invoices[pk].status = "DRAFT"
    /\ flight' = [flight EXCEPT ![r] =
                     [Idle EXCEPT !.op = "purchase_confirm", !.at = "commit", !.pk = pk,
                                  !.purchase = invoices[pk]]]
    /\ UNCHANGED <<db, line, shelf>>

\* "purchase.status = 'CONFIRMED'; purchase.save()": every field of the
\* object that was loaded is written.
purchase_confirm_commit(r) ==
    /\ InFlight(r, "purchase_confirm", "commit")
    /\ flight' = [flight EXCEPT ![r].at = "done"]
    /\ invoices' = SaveRow(invoices, flight[r].pk,
                           [flight[r].purchase EXCEPT !.status = "CONFIRMED"])
    /\ resp' = Confirmed
    /\ UNCHANGED <<books, next_pk, adjusts, edits, line, shelf>>

\* purchase_create, POST: the forms are valid and form.save(commit=False)
\* has built the invoice, numbered after the newest purchase invoice there is.
purchase_create_begin(r) ==
    /\ Starts(r)
    /\ next_pk <= MaxInvoices
    /\ IF NumberRaises(invoices)
       THEN /\ flight' = [flight EXCEPT ![r] =
                             [Idle EXCEPT !.op = "purchase_create", !.at = "failed"]]
            /\ resp' = ValueError
       ELSE /\ flight' = [flight EXCEPT ![r] =
                             [Idle EXCEPT !.op = "purchase_create", !.at = "commit",
                                          !.purchase = NewInvoice(invoices)]]
            /\ UNCHANGED resp
    /\ UNCHANGED <<books, invoices, next_pk, adjusts, edits, line, shelf>>

\* The rest of purchase_create: invoice.save() inserts the row (IntegrityError
\* when its number has been taken), the items are saved, the totals written.
purchase_create_commit(r) ==
    /\ InFlight(r, "purchase_create", "commit")
    /\ next_pk <= MaxInvoices
    /\ flight' = [flight EXCEPT ![r].at = "done"]
    /\ \E forms \in {fs \in RaceFormSets : Accepted(fs)} :
         IF NumberTaken(invoices, flight[r].purchase.invoice_number)
         THEN UNCHANGED <<invoices, next_pk>> /\ resp' = IntegrityError
         ELSE LET saved == SaveForms(flight[r].purchase, TRUE, forms, 1)
              IN  IF saved.raised
                  THEN UNCHANGED <<invoices, next_pk>> /\ resp' = TypeError
                  ELSE /\ invoices' = [pk \in DOMAIN invoices \cup {next_pk} |->
                              IF pk = next_pk THEN WriteViewTotals(saved.row, forms)
                              ELSE invoices[pk]]
                       /\ next_pk' = next_pk + 1
                       /\ resp' = Created
    /\ UNCHANGED <<books, adjusts, edits, line, shelf>>

\* A request that runs with no statement of another request between its own
\* is one step (create, edit, confirm); beside them up to MaxRequests
\* requests run statement by statement.
NextRace ==
    \/ purchase_create_of(MaxInvoices, RaceFormSets)
    \/ \E pk \in Pks : purchase_edit_of(pk, RaceFormSets)
    \/ \E pk \in Pks : purchase_confirm(pk)
    \/ \E r \in Reqs : purchase_create_begin(r)
    \/ \E r \in Reqs : purchase_create_commit(r)
    \/ \E r \in Reqs, pk \in Pks : purchase_confirm_begin(r, pk)
    \/ \E r \in Reqs : purchase_confirm_commit(r)
    \/ \E r \in Reqs, pk \in Pks : purchase_receive_begin(r, pk)
    \/ \E r \in Reqs : purchase_receive_items(r)
    \/ \E r \in Reqs : purchase_receive_load(r)
    \/ \E r \in Reqs : purchase_receive_save(r)
    \/ \E r \in Reqs : purchase_receive_finish(r)
    \/ \E r \in Reqs, pk \in Pks : purchase_edit_begin(r, pk)
    \/ \E r \in Reqs : purchase_edit_commit(r)
    \/ \E r \in Reqs, pk \in Pks : purchase_delete_begin(r, pk)
    \/ \E r \in Reqs : purchase_delete_commit(r)

\* Purchase invoices created, edited and confirmed, and up to MaxRequests
\* requests interleaved statement by statement.
SpecRace == Init /\ [][NextRace]_vars

\* ------------------------------------------------------------- claims

Items(pk) == invoices[pk].items

\* Some item of invoice pk cannot be processed: its division raises.
SomeItemRaises(pk) ==
    \E k \in DOMAIN Items(pk) : ReceiptRaises(books[Items(pk)[k].book], Items(pk)[k])

\* Every item of invoice pk has been applied to its book, and no other book
\* has changed (an invoice built by the views holds no book twice).
AllReceived(pk) ==
    /\ ~SomeItemRaises(pk)
    /\ \A k \in DOMAIN Items(pk) :
         books'[Items(pk)[k].book] = ReceiveItem(books[Items(pk)[k].book], Items(pk)[k])
    /\ \A b \in Books :
         (\A k \in DOMAIN Items(pk) : Items(pk)[k].book # b) => books'[b] = books[b]

\* C1: a receive request is all-or-nothing: after it either every item's book
\* has its new quantity_on_hand and cost_price and the invoice is PAID, or no
\* book has changed and the invoice is as it was.
C1_AllOrNothing ==
    [][\A pk \in Pks :
         purchase_receive(pk) =>
            \/ books' = books /\ invoices' = invoices
            \/ AllReceived(pk) /\ invoices' = [invoices EXCEPT ![pk].status = "PAID"]]_vars

\* C2: on an invoice that is not a purchase or not CONFIRMED, the receive view
\* and the method itself answer with an error and leave every invoice and
\* every book as they were.
C2_ReceiptRejected ==
    [][\A pk \in DOMAIN invoices :
         (invoices[pk].invoice_type # "PURCHASE" \/ invoices[pk].status # "CONFIRMED") =>
            /\ purchase_receive(pk) =>
                 resp' \in {NotFound, NotConfirmed} /\ UNCHANGED <<invoices, books>>
            /\ Invoice_process_purchase_receipt(pk) =>
                 resp' = "raised" /\ UNCHANGED <<invoices, books>>]_vars

\* C2 witness: the only invoice there has been is a CANCELLED purchase
\* invoice and the last request, a receive, was answered "Only confirmed ...
\* can be received".
C2_Witness ==
    /\ next_pk = 2
    /\ DOMAIN invoices = {1}
    /\ invoices[1].invoice_type = "PURCHASE"
    /\ invoices[1].status = "CANCELLED"
    /\ resp = NotConfirmed

\* A receipt of invoice pk is posted (or the method is called): the step is
\* the receive view's past its guards, and not the GET page.
ReceiptPosted(pk) ==
    /\ Found(pk)
    /\ invoices[pk].status = "CONFIRMED"
    /\ \/ purchase_receive(pk) /\ resp' # Page
       \/ Invoice_process_purchase_receipt(pk)

\* The quantity the items hold of book b.
QuantityOf(items, b) ==
    SumSeq([k \in DOMAIN items |-> IF items[k].book = b THEN items[k].quantity ELSE 0])

ReceiptSucceeded(pk) ==
    /\ resp' \in {Received, "returned"}
    /\ invoices' = [invoices EXCEPT ![pk].status = "PAID"]
    /\ DOMAIN books' = DOMAIN books
    /\ \A b \in DOMAIN books :
         books'[b].quantity_on_hand
            = books[b].quantity_on_hand + QuantityOf(Items(pk), b)

\* C3: on every CONFIRMED purchase invoice a posted receipt succeeds, adds
\* each item's quantity to its book and sets PAID, whatever paid_amount is
\* (also when less is paid than the total).
C3_ReceiptSucceeds ==
    [][\A pk \in DOMAIN invoices : ReceiptPosted(pk) => ReceiptSucceeded(pk)]_vars

\* C4: a confirm request moves an invoice to CONFIRMED only from DRAFT: on a
\* purchase invoice in any other status it is answered "already confirmed or
\* processed" and no invoice changes, and whenever it changes anything the
\* invoice was DRAFT and only its status changed, to CONFIRMED.
C4_ConfirmOnlyFromDraft ==
    [][\A pk \in Pks :
         purchase_confirm(pk) =>
            /\ (Found(pk) /\ invoices[pk].status # "DRAFT") =>
                  resp' = AlreadyConfirmed /\ invoices' = invoices
            /\ invoices' # invoices =>
                  /\ Found(pk)
                  /\ invoices[pk].status = "DRAFT"
                  /\ invoices' = [invoices EXCEPT ![pk].status = "CONFIRMED"]]_vars

\* C4 witness: the only invoice there has been is an OVERDUE purchase
\* invoice, and the last request, a confirm, was rejected.
C4_Witness ==
    /\ next_pk = 2
    /\ DOMAIN invoices = {1}
    /\ invoices[1].invoice_type = "PURCHASE"
    /\ invoices[1].status = "OVERDUE"
    /\ resp = AlreadyConfirmed

\* C5: edit and delete requests take effect only on a DRAFT invoice: on a
\* purchase invoice in any other status they are answered "Cannot edit" or
\* "Cannot delete" and no invoice (items, subtotal, total_amount) changes.
C5_EditDeleteOnlyInDraft ==
    [][\A pk \in Pks :
         /\ (Found(pk) /\ invoices[pk].status # "DRAFT") =>
               /\ purchase_edit(pk) => resp' = CannotEdit /\ invoices' = invoices
               /\ purchase_delete(pk) => resp' = CannotDelete /\ invoices' = invoices
         /\ \/ Found(pk) /\ invoices[pk].status = "DRAFT"
            \/ ~(invoices' # invoices /\ (purchase_edit(pk) \/ purchase_delete(pk)))]_vars

\* C5 witness: the only invoice ever created has items and is CONFIRMED, and
\* the last request, an edit, was rejected.
C5_Witness ==
    /\ next_pk = 2
    /\ DOMAIN invoices = {1}
    /\ invoices[1].status = "CONFIRMED"
    /\ invoices[1].items # <<>>
    /\ resp = CannotEdit

TotalsAgree(inv) ==
    inv.total_amount
        = inv.subtotal - inv.discount_amount + inv.tax_amount + inv.shipping_charges

\* C6: the invoice a create or an edit request has written has
\* total_amount = subtotal - discount_amount + tax_amount + shipping_charges.
C6_TotalsIdentity ==
    [][/\ (purchase_create /\ resp' = Created) => TotalsAgree(invoices'[next_pk])
       /\ \A pk \in Pks :
            (purchase_edit(pk) /\ resp' = Updated) => TotalsAgree(invoices'[pk])]_vars

\* C7: the stored subtotal of every invoice is the sum of the stored
\* line_total of its items (0 when it has none).
C7_SubtotalIsSum ==
    \A pk \in DOMAIN invoices :
        invoices[pk].subtotal = SumSeq(LineTotals(invoices[pk].items))

\* C8: one receipt step leaves the book with the old quantity plus the
\* incoming one, and with the incoming unit cost as cost_price only when the
\* old quantity_on_hand and cost_price are both 0; otherwise with
\* (old cost_price * old quantity + incoming cost * incoming quantity) / new
\* quantity, to the nearest cent, also when the old cost_price is 0 and the
\* old quantity_on_hand is not.
C8_ReceiptStep ==
    shelf.receipts > 0 =>
        LET new_quantity == shelf.before.quantity_on_hand + shelf.last.quantity
            total_value  == shelf.before.cost_price * shelf.before.quantity_on_hand
                              + shelf.last.unit_price * shelf.last.quantity
        IN  /\ shelf.book.quantity_on_hand = new_quantity
            /\ IF shelf.before.quantity_on_hand = 0 /\ shelf.before.cost_price = 0
               THEN shelf.book.cost_price = shelf.last.unit_price
               ELSE 2 * Abs(shelf.book.cost_price * new_quantity - total_value)
                      <= new_quantity

\* C9: a book that starts at (0, 0) has, after its receipts, the sum of their
\* quantities on hand and their value over that sum as cost_price (to within
\* the half cent each receipt's stored cost_price can be off).
C9_WeightedAverage ==
    (shelf.start = NewBook /\ shelf.receipts > 0) =>
        /\ shelf.book.quantity_on_hand = shelf.received
        /\ 2 * Abs(shelf.book.cost_price * shelf.received - shelf.value)
              <= shelf.receipts * shelf.received

\* C10: a saved line has line_total =
\* quantity * unit_price * (1 - discount_percent/100) * (1 + tax_percent/100),
\* stored to the nearest cent.
C10_LineTotal ==
    line # NoLine =>
        2 * Abs(line.line_total * Fine
                  - line.quantity * line.unit_price
                      * (100 - line.discount_percent) * (100 + line.tax_percent))
            <= Fine

\* C10 witness: quantity 3 at 100.00, discount 10, tax 5 is stored as 283.50.
C10_Witness ==
    /\ line.quantity = 3
    /\ line.unit_price = 10000
    /\ line.discount_percent = 10
    /\ line.tax_percent = 5
    /\ line.line_total = 28350

\* C11: no stored item has a quantity below 1, a negative unit_price or a
\* discount_percent or tax_percent outside 0..100.
C11_NoInvalidItemStored ==
    \A pk \in DOMAIN invoices :
        \A k \in DOMAIN Items(pk) :
            /\ Items(pk)[k].quantity >= 1
            /\ Items(pk)[k].unit_price >= 0
            /\ Items(pk)[k].discount_percent \in 0 .. 100
            /\ Items(pk)[k].tax_percent \in 0 .. 100

\* The books after the receipt of items a and then of items b, each receipt
\* run on its own, starting from books with no stock and no cost; none if
\* one of the two raises.
OneAfterTheOther(a, b) ==
    LET first  == ReceiptLoop(a, 1, [bk \in Books |-> NewBook])
        second == ReceiptLoop(b, 1, first.books)
    IN  IF first.raised \/ second.raised THEN {} ELSE {second.books}

\* C12: when two receive requests for different invoices have run side by
\* side and both have finished (no other request touched a book), the books
\* are as if the two receipts had run one after the other in some order: each
\* quantity_on_hand has both incoming quantities, each cost_price is the
\* sequential result.
C12_NoLostUpdate ==
    (/\ \A r \in {1, 2} : InFlight(r, "purchase_receive", "done")
     /\ \A r \in Reqs \ {1, 2} : flight[r].op # "purchase_receive"
     /\ flight[1].pk # flight[2].pk)
        => books \in OneAfterTheOther(flight[1].items, flight[2].items)
                       \cup OneAfterTheOther(flight[2].items, flight[1].items)

\* C20: an invoice that is CONFIRMED or has gone on to PAID stays in the
\* database with the items, subtotal and total_amount it has, and its status
\* is never written back to DRAFT.
C20_ConfirmationFreezes ==
    [][\A pk \in DOMAIN invoices :
         invoices[pk].status \in {"CONFIRMED", "PAID"} =>
            /\ pk \in DOMAIN invoices'
            /\ invoices'[pk].items = invoices[pk].items
            /\ invoices'[pk].subtotal = invoices[pk].subtotal
            /\ invoices'[pk].total_amount = invoices[pk].total_amount
            /\ invoices'[pk].status # "DRAFT"]_vars

\* C13: no invoice holds two items of the same book, and a create or edit
\* request answered "Each book can only appear once" creates and changes no
\* invoice and stores no item.
C13_NoBookTwice ==
    [][/\ \A pk \in DOMAIN invoices' :
            \A j, k \in DOMAIN invoices'[pk].items :
                j # k => invoices'[pk].items[j].book # invoices'[pk].items[k].book
       /\ resp' = OnlyOnce => invoices' = invoices /\ next_pk' = next_pk]_vars

\* C13 witness: the one invoice ever created holds one item, and the last
\* request, an edit naming a book twice, was rejected.
C13_Witness ==
    /\ resp = OnlyOnce
    /\ next_pk = 2
    /\ DOMAIN invoices = {1}
    /\ Len(invoices[1].items) = 1

\* The status changes of a purchase invoice's life: DRAFT, CONFIRMED, PAID.
StatusMoves == {<<"DRAFT", "CONFIRMED">>, <<"CONFIRMED", "PAID">>}

\* C14: whatever create, edit, delete, confirm or receive request is served,
\* an invoice it creates is DRAFT, a PAID or CANCELLED invoice stays and keeps
\* its status, and a status changes only from DRAFT to CONFIRMED or from
\* CONFIRMED to PAID.
C14_StatusHistory ==
    [][resp' \in ViewAnswers =>
         /\ \A pk \in DOMAIN invoices' \ DOMAIN invoices :
               invoices'[pk].status = "DRAFT"
         /\ \A pk \in DOMAIN invoices :
               /\ invoices[pk].status \in {"PAID", "CANCELLED"} =>
                     pk \in DOMAIN invoices'
               /\ pk \in DOMAIN invoices' =>
                     \/ invoices'[pk].status = invoices[pk].status
                     \/ /\ <<invoices[pk].status, invoices'[pk].status>> \in StatusMoves
                        /\ invoices[pk].invoice_type = "PURCHASE"]_vars

\* C14 witness: one purchase invoice is CANCELLED, the other went from DRAFT
\* through CONFIRMED to PAID, and a receive request for a settled one was
\* refused.
C14_Witness ==
    /\ DOMAIN invoices = {1, 2}
    /\ invoices[1].invoice_type = "PURCHASE"
    /\ invoices[1].status = "CANCELLED"
    /\ invoices[2].status = "PAID"
    /\ invoices[2].invoice_type = "PURCHASE"
    /\ resp = NotConfirmed

\* C15: a receive request answered with success leaves no book with a lower
\* quantity_on_hand than it had (the items of the invoices are the ones the
\* purchase item form accepted).
C15_ReceiptNeverLowers ==
    [][\A pk \in Pks :
         (purchase_receive(pk) /\ resp' = Received) =>
            \A k \in DOMAIN invoices[pk].items :
                books'[invoices[pk].items[k].book].quantity_on_hand
                    >= books[invoices[pk].items[k].book].quantity_on_hand]_vars

\* C15 witness: a receipt of two items, one of quantity 1 and one of quantity
\* 0, has succeeded.
C15_Witness ==
    /\ resp = Received
    /\ 1 \in DOMAIN invoices
    /\ invoices[1].status = "PAID"
    /\ Len(invoices[1].items) = 2
    /\ invoices[1].items[1].quantity = 1
    /\ invoices[1].items[2].quantity = 0
    /\ books[invoices[1].items[1].book].quantity_on_hand >= 1

\* The receipt loop from item k on reaches, for an item of quantity above 0,
\* the division total_value / book.quantity_on_hand with a new quantity of 0.
RECURSIVE ZeroDivisor(_, _, _)
ZeroDivisor(items, k, bks) ==
    IF k > Len(items) THEN FALSE
    ELSE LET item == items[k]
             book == bks[item.book]
         IN  IF ReceiptRaises(book, item) THEN item.quantity > 0
             ELSE ZeroDivisor(items, k + 1,
                              [bks EXCEPT ![item.book] = ReceiveItem(book, item)])

\* C16: no receive request that runs the receipt divides by a new
\* quantity_on_hand of 0 for an item of quantity above 0, whatever the books
\* have become through receipts and stock adjustments.
C16_NoZeroDivisor ==
    [][\A pk \in Pks :
         (purchase_receive(pk) /\ resp' \in {Received, ReceiptError}) =>
            ~ZeroDivisor(invoices[pk].items, 1, books)]_vars

\* C17: once update_totals has been called on an invoice, calling it again
\* with the items and the discount, tax and shipping amounts as they are
\* gives the subtotal and the total_amount the first call stored.
C17_RecomputeIdempotent ==
    [][\A pk \in Pks :
         Invoice_update_totals(pk) =>
            /\ update_totals(invoices'[pk], FALSE).row.subtotal = invoices'[pk].subtotal
            /\ update_totals(invoices'[pk], FALSE).row.total_amount
                  = invoices'[pk].total_amount]_vars

\* C17 witness: a recomputation has stored a total that differs from the
\* subtotal by the discount typed in the admin site.
C17_Witness ==
    /\ resp = Recomputed
    /\ 1 \in DOMAIN invoices
    /\ invoices[1].subtotal > 0
    /\ invoices[1].discount_amount = 1
    /\ invoices[1].total_amount = invoices[1].subtotal - 1

C19_Numbers ==
    [][/\ \A pk \in DOMAIN invoices' :
            /\ Len(invoices'[pk].invoice_number) = NumberWidth
            /\ FormatNumber(ParseNumber(invoices'[pk].invoice_number))
                  = invoices'[pk].invoice_number
       /\ \A pk \in DOMAIN invoices' \ DOMAIN invoices :
            ParseNumber(invoices'[pk].invoice_number) =
                IF DOMAIN invoices = {} THEN 1
                ELSE ParseNumber(invoices[Max(DOMAIN invoices)].invoice_number) + 1
       /\ \A j, k \in DOMAIN invoices' :
            j # k => invoices'[j].invoice_number # invoices'[k].invoice_number]_vars

\* C19 witness: of three invoices created the second was deleted while the
\* newest, and the third took its number: PO-000001 and PO-000002 exist.
C19_Witness ==
    /\ resp = Created
    /\ DOMAIN invoices = {1, 3}
    /\ invoices[1].invoice_number = <<0, 0, 0, 0, 0, 1>>
    /\ invoices[3].invoice_number = <<0, 0, 0, 0, 0, 2>>

\* C21: a book that starts with a cost_price of 0 or more never has a
\* negative cost_price, whatever receipts (quantity above 0, unit cost 0 or
\* more) and stock adjustments are applied to it.
C21_CostNeverNegative ==
    shelf.book.cost_price >= 0

\* C22: when two receive requests for the same invoice have both run to
\* their end (the books had no stock before and no other request touched
\* them), every book of the invoice's items has the item's quantity on hand:
\* the stock was added once.
C22_ReceivedOnce ==
    (/\ \A r \in {1, 2} : InFlight(r, "purchase_receive", "done")
     /\ \A r \in Reqs \ {1, 2} : flight[r].op # "purchase_receive"
     /\ flight[1].pk = flight[2].pk)
        => \A k \in DOMAIN flight[1].items :
              books[flight[1].items[k].book].quantity_on_hand
                  = flight[1].items[k].quantity

\* C23: a successful confirm changes the status of its invoice and nothing
\* else (no item, no total, no other invoice, no book); a successful receipt
\* changes the status of its invoice and the books its items refer to, and
\* nothing else (no item, no total, no paid_amount, no other invoice, no
\* other book).
C23_Frame ==
    [][\A pk \in Pks :
         /\ (purchase_confirm(pk) /\ resp' = Confirmed) =>
               /\ invoices' = [invoices EXCEPT ![pk].status = invoices'[pk].status]
               /\ books' = books
               /\ next_pk' = next_pk
         /\ (purchase_receive(pk) /\ resp' = Received) =>
               /\ invoices' = [invoices EXCEPT ![pk].status = invoices'[pk].status]
               /\ \A b \in Books :
                     (\A k \in DOMAIN invoices[pk].items : invoices[pk].items[k].book # b)
                        => books'[b] = books[b]
               /\ next_pk' = next_pk]_vars

\* C23 witness: invoice 2, three copies of book 2 with a total above 0, was
\* confirmed and received beside the DRAFT invoice 1; book 2 has the stock,
\* book 1 is as it was and nothing was paid.
C23_Witness ==
    /\ resp = Received
    /\ DOMAIN invoices = {1, 2}
    /\ invoices[1].status = "DRAFT"
    /\ invoices[2].status = "PAID"
    /\ invoices[2].total_amount > 0
    /\ invoices[2].paid_amount = 0
    /\ books[2].quantity_on_hand = 3
    /\ books[1] = NewBook

=============================================================================
